---- MODULE Spec2Model ----
(***************************************************************************)
(* The log watcher of src/watcher/watcher.py: one loop that reads nginx    *)
(* access-log lines, parses pool / upstream_status / request, keeps a      *)
(* rolling window of status codes and decides which Slack alerts to send.  *)
(* One step of the model is one iteration of the `for line in ...` loop.   *)
(***************************************************************************)
EXTENDS Integers, Sequences, FiniteSets, TLC

\* ------------------------------------------------------------------------
\* Configuration (environment variables read at start-up)
\* ------------------------------------------------------------------------
ACTIVE_POOL == "blue"
ERROR_RATE_THRESHOLD == 50
WINDOW_SIZE == 3
ALERT_COOLDOWN_SEC == 1
REQUIRED_FIELDS == {"pool", "upstream_status", "request"}

\* ------------------------------------------------------------------------
\* Bounds of the model
\* ------------------------------------------------------------------------
MaxTime == 4          \* the clock runs from StartTime to MaxTime
MaxTotal == 2         \* lines counted under Spec
MaxTotalDQ == 100     \* lines counted under SpecDQ
MaxPushes == 5        \* lines counted under SpecWindow
MaxCapacity == 4      \* window capacities compared under SpecWindow
MaxTimeErr == 6       \* the clock under SpecErr
MaxTotalErr == 4      \* lines counted under SpecErr
TotalCycle == 2       \* total_logs_count wraps at TotalCycle under SpecLive

\* seconds that may pass between the two clock reads of one iteration: up to
\* just beyond the cooldown
MaxDelay == ALERT_COOLDOWN_SEC + 1

\* time.time() at start-up is far beyond the cooldown, last_alert_time is 0
StartTime == ALERT_COOLDOWN_SEC + 1

\* ------------------------------------------------------------------------
\* Log lines: a line is the sequence of its whitespace-separated tokens.
\* A token is [k, name, chars]: k is the text before the first "=",
\* name the pool name of a pool= token, chars the characters of the value
\* of an upstream_status= token.
\* ------------------------------------------------------------------------
Digits == {"0", "1", "2", "3", "4", "5", "6", "7", "8", "9"}

DigitVal(c) ==
    CASE c = "0" -> 0 [] c = "1" -> 1 [] c = "2" -> 2 [] c = "3" -> 3
      [] c = "4" -> 4 [] c = "5" -> 5 [] c = "6" -> 6 [] c = "7" -> 7
      [] c = "8" -> 8 [] c = "9" -> 9

PoolTok(p) == [k |-> "pool", name |-> p, chars |-> <<>>]
StatusTok(cs) == [k |-> "upstream_status", name |-> "", chars |-> cs]
RequestTok == [k |-> "request", name |-> "", chars |-> <<>>]
OtherTok == [k |-> "remote_addr", name |-> "", chars |-> <<>>]

\* ------------------------------------------------------------------------
\* int(status_str): decimal digits with an optional sign; anything else
\* raises ValueError.
\* ------------------------------------------------------------------------
RECURSIVE DecimalValue(_)
DecimalValue(cs) ==
    IF cs = <<>> THEN 0
    ELSE 10 * DecimalValue(SubSeq(cs, 1, Len(cs) - 1)) + DigitVal(cs[Len(cs)])

int(cs) ==
    LET signed == Len(cs) > 0 /\ cs[1] \in {"-", "+"}
        body == IF signed THEN Tail(cs) ELSE cs
    IN  IF body = <<>> \/ \E i \in 1..Len(body) : body[i] \notin Digits
        THEN [ok |-> FALSE, val |-> 0]
        ELSE [ok |-> TRUE,
              val |-> IF signed /\ cs[1] = "-" THEN 0 - DecimalValue(body)
                      ELSE DecimalValue(body)]

\* .split(",")[0]: the characters before the first comma
RECURSIVE FirstHop(_)
FirstHop(cs) ==
    IF cs = <<>> \/ cs[1] = "," THEN <<>>
    ELSE <<cs[1]>> \o FirstHop(Tail(cs))

\* '"GET ' in part or '"POST ' in part: part comes from line.split(), so it
\* holds no whitespace and cannot contain either substring (both end in a
\* space)
QuotedMethodIn(part) == FALSE

\* ------------------------------------------------------------------------
\* The parse loop over the tokens of a line.  acc is
\* [ok, pool, status, found_fields]; a ValueError of int() leaves the loop.
\* ------------------------------------------------------------------------
\* variant: the status parsed without recording upstream_status as found
ParsePart_StatusNotRecorded(acc, part) ==
    LET a1 == IF part.k = "pool"
              THEN [acc EXCEPT !.pool = part.name,
                               !.found_fields = @ \cup {"pool"}]
              ELSE acc
        n  == int(FirstHop(part.chars))
        a2 == IF part.k = "upstream_status"
              THEN IF n.ok
                   THEN [a1 EXCEPT !.status = n.val]
                   ELSE [a1 EXCEPT !.ok = FALSE]
              ELSE a1
    IN  IF a2.ok /\ (part.k = "request" \/ QuotedMethodIn(part))
        THEN [a2 EXCEPT !.found_fields = @ \cup {"request"}]
        ELSE a2

ParsePart(acc, part) ==
    LET a1 == IF part.k = "pool"
              THEN [acc EXCEPT !.pool = part.name,
                               !.found_fields = @ \cup {"pool"}]
              ELSE acc
        n  == int(FirstHop(part.chars))
        a2 == IF part.k = "upstream_status"
              THEN IF n.ok
                   THEN [a1 EXCEPT !.status = n.val,
                                   !.found_fields = @ \cup {"upstream_status"}]
                   ELSE [a1 EXCEPT !.ok = FALSE]
              ELSE a1
    IN  IF a2.ok /\ (part.k = "request" \/ QuotedMethodIn(part))
        THEN [a2 EXCEPT !.found_fields = @ \cup {"request"}]
        ELSE a2

RECURSIVE ParseParts(_, _)
ParseParts(acc, parts) ==
    IF parts = <<>> \/ ~acc.ok THEN acc
    ELSE ParseParts(ParsePart(acc, Head(parts)), Tail(parts))

ParseFields(line) ==
    ParseParts([ok |-> TRUE, pool |-> "unknown", status |-> 0,
                found_fields |-> {}], line)

\* ------------------------------------------------------------------------
\* send_slack_alert: the message handed to the webhook.  kind stands for the
\* title, at for the Timestamp field; delivered is FALSE when requests.post
\* raised (the exception is caught and printed inside send_slack_alert).
\*   DataQuality          "Nginx Logs Missing Fields"
\*   UnreachableEndpoint  "Endpoint Failed (HTTP 000)"
\*   HeaderAnomaly        "Headers Incorrect"
\*   Failover             "Failover to Green Detected"
\*   Recovery             "Recovery to Blue Detected"
\*   PoolSwitch           "Pool Switch Detected"
\*   ErrorRateElevated    "Error Rate Alert"
\*   ErrorRateRecovered   "Error Rate Recovery"
\* ------------------------------------------------------------------------
send_slack_alert(kind, at, post_ok) ==
    [kind |-> kind, at |-> at, delivered |-> post_ok]

\* ------------------------------------------------------------------------
\* Rolling window: deque(maxlen=WINDOW_SIZE).append, the error scan and the
\* error rate.  The rate is kept as the exact fraction num/den (percent).
\* ------------------------------------------------------------------------
\* variant: a full window keeps its oldest entry and drops its newest
deque_append_DropNewest(w, s) ==
    IF WINDOW_SIZE = 0 THEN w
    ELSE IF Len(w) = WINDOW_SIZE THEN Append(SubSeq(w, 1, Len(w) - 1), s)
    ELSE Append(w, s)

\* variant: a deque that evicts one push too late
append_maxlen_OneMore(w, s, maxlen) ==
    IF maxlen = 0 THEN w
    ELSE IF Len(w) > maxlen THEN Append(Tail(w), s)
    ELSE Append(w, s)

\* deque(maxlen=maxlen).append(s): a full deque drops its oldest entry
append_maxlen(w, s, maxlen) ==
    IF maxlen = 0 THEN w
    ELSE IF Len(w) = maxlen THEN Append(Tail(w), s)
    ELSE Append(w, s)

\* status_window = deque(maxlen=WINDOW_SIZE); status_window.append(status)
deque_append(w, s) == append_maxlen(w, s, WINDOW_SIZE)

\* variant: the scan written with s <= 600
RECURSIVE errors_Upto600(_)
errors_Upto600(w) ==
    IF w = <<>> THEN 0
    ELSE (IF 500 <= Head(w) /\ Head(w) <= 600 THEN 1 ELSE 0)
         + errors_Upto600(Tail(w))

RECURSIVE errors(_)
errors(w) ==
    IF w = <<>> THEN 0
    ELSE (IF 500 <= Head(w) /\ Head(w) < 600 THEN 1 ELSE 0) + errors(Tail(w))

error_rate(w) ==
    IF w # <<>> THEN [num |-> errors(w) * 100, den |-> Len(w)]
    ELSE [num |-> 0, den |-> 1]

\* error_rate > ERROR_RATE_THRESHOLD
AboveThreshold(rate) == rate.num > ERROR_RATE_THRESHOLD * rate.den

\* variant: the cooldown test written with >=
CooldownElapsed_AtLeast(now, last) == now - last >= ALERT_COOLDOWN_SEC

\* now - last_alert_time > ALERT_COOLDOWN_SEC
CooldownElapsed(now, last) == now - last > ALERT_COOLDOWN_SEC

\* ------------------------------------------------------------------------
\* The blocks of the loop body.  st is the record of the module-level
\* variables of the watcher; each block returns the new st and the alerts
\* it sent.
\* ------------------------------------------------------------------------

\* variant: the data-quality alert without the "% 50" throttle
CheckMissingFields_NoThrottle(st, p, now, post_ok) ==
    LET missing == {f \in REQUIRED_FIELDS : f \notin p.found_fields}
        count == st.missing_fields_count + 1
    IN  IF missing # {}
        THEN [st |-> [st EXCEPT !.missing_fields_count = count],
              alerts |-> IF count * 3 >= st.total_logs_count
                         THEN <<send_slack_alert("DataQuality", now, post_ok)>>
                         ELSE <<>>]
        ELSE [st |-> st, alerts |-> <<>>]

\* variant: the data-quality alert decided for every record, complete or not
CheckMissingFields_AnyRecord(st, p, now, post_ok) ==
    LET missing == {f \in REQUIRED_FIELDS : f \notin p.found_fields}
        count == IF missing # {} THEN st.missing_fields_count + 1
                 ELSE st.missing_fields_count
    IN  [st |-> [st EXCEPT !.missing_fields_count = count],
         alerts |-> IF count * 3 >= st.total_logs_count
                       /\ st.total_logs_count % 50 = 0
                    THEN <<send_slack_alert("DataQuality", now, post_ok)>>
                    ELSE <<>>]

\* variant: a record counted as incomplete only when pool or
\* upstream_status is absent
CheckMissingFields_RequestOptional(st, p, now, post_ok) ==
    LET missing == {f \in {"pool", "upstream_status"} : f \notin p.found_fields}
        count == st.missing_fields_count + 1
    IN  IF missing # {}
        THEN [st |-> [st EXCEPT !.missing_fields_count = count],
              alerts |-> IF count * 3 >= st.total_logs_count
                            /\ st.total_logs_count % 50 = 0
                         THEN <<send_slack_alert("DataQuality", now, post_ok)>>
                         ELSE <<>>]
        ELSE [st |-> st, alerts |-> <<>>]

\* "Check for missing required fields"
CheckMissingFields(st, p, now, post_ok) ==
    LET missing == {f \in REQUIRED_FIELDS : f \notin p.found_fields}
        count == st.missing_fields_count + 1
    IN  IF missing # {}
        THEN [st |-> [st EXCEPT !.missing_fields_count = count],
              alerts |-> IF count * 3 >= st.total_logs_count
                            /\ st.total_logs_count % 50 = 0
                         THEN <<send_slack_alert("DataQuality", now, post_ok)>>
                         ELSE <<>>]
        ELSE [st |-> st, alerts |-> <<>>]

\* variant: the HTTP 000 alert placed under the shared cooldown
CheckUnreachable_Cooldown(st, p, now, post_ok) ==
    IF p.status = 0 /\ CooldownElapsed(now, st.last_alert_time)
    THEN <<send_slack_alert("UnreachableEndpoint", now, post_ok)>>
    ELSE <<>>

\* "Check for HTTP 000 (endpoint failed)": sent for every record with
\* status 0, then `continue`
CheckUnreachable(st, p, now, post_ok) ==
    IF p.status = 0
    THEN <<send_slack_alert("UnreachableEndpoint", now, post_ok)>>
    ELSE <<>>

\* "Check for invalid headers (5xx with missing expected headers)"
CheckHeaders(p, now, post_ok) ==
    IF 500 <= p.status /\ p.status < 600
       /\ "upstream_status" \notin p.found_fields
    THEN <<send_slack_alert("HeaderAnomaly", now, post_ok)>>
    ELSE <<>>

\* variant: the kind decided by the new pool alone
PoolAlertKind_ByTarget(last_pool, pool) ==
    IF pool # ACTIVE_POOL THEN "Failover" ELSE "Recovery"

\* "Check for failover from blue to green"
PoolAlertKind(last_pool, pool) ==
    IF last_pool = ACTIVE_POOL /\ pool # ACTIVE_POOL THEN "Failover"
    ELSE IF last_pool # ACTIVE_POOL /\ pool = ACTIVE_POOL THEN "Recovery"
    ELSE "PoolSwitch"

\* variant: last_alert_time written only after a successful post
CheckPoolChange_IfDelivered(st, pool, now, post_ok) ==
    IF pool # "unknown" /\ pool # "-" /\ pool # st.last_pool
    THEN IF CooldownElapsed(now, st.last_alert_time)
         THEN [st |-> [st EXCEPT !.last_alert_time =
                                     IF post_ok THEN now ELSE @,
                                 !.last_pool = pool],
               alerts |-> <<send_slack_alert(
                               PoolAlertKind(st.last_pool, pool), now, post_ok)>>]
         ELSE [st |-> [st EXCEPT !.last_pool = pool], alerts |-> <<>>]
    ELSE [st |-> st, alerts |-> <<>>]

\* variant: last_pool written only when the alert is sent
CheckPoolChange_PoolOnAlert(st, pool, now, post_ok) ==
    IF pool # "unknown" /\ pool # "-" /\ pool # st.last_pool
    THEN IF CooldownElapsed(now, st.last_alert_time)
         THEN [st |-> [st EXCEPT !.last_alert_time = now, !.last_pool = pool],
               alerts |-> <<send_slack_alert(
                               PoolAlertKind(st.last_pool, pool), now, post_ok)>>]
         ELSE [st |-> st, alerts |-> <<>>]
    ELSE [st |-> st, alerts |-> <<>>]

\* variant: a pool alert that does not write last_alert_time
CheckPoolChange_NoStamp(st, pool, now, post_ok) ==
    IF pool # "unknown" /\ pool # "-" /\ pool # st.last_pool
    THEN IF CooldownElapsed(now, st.last_alert_time)
         THEN [st |-> [st EXCEPT !.last_pool = pool],
               alerts |-> <<send_slack_alert(
                               PoolAlertKind(st.last_pool, pool), now, post_ok)>>]
         ELSE [st |-> [st EXCEPT !.last_pool = pool], alerts |-> <<>>]
    ELSE [st |-> st, alerts |-> <<>>]

CheckPoolChange(st, pool, now, post_ok) ==
    IF pool # "unknown" /\ pool # "-" /\ pool # st.last_pool
    THEN IF CooldownElapsed(now, st.last_alert_time)
         THEN [st |-> [st EXCEPT !.last_alert_time = now, !.last_pool = pool],
               alerts |-> <<send_slack_alert(
                               PoolAlertKind(st.last_pool, pool), now, post_ok)>>]
         ELSE [st |-> [st EXCEPT !.last_pool = pool], alerts |-> <<>>]
    ELSE [st |-> st, alerts |-> <<>>]

\* variant: the high-error-rate alert guarded by last_error_state alone
CheckErrorRate_NoCooldown(st, rate, now, post_ok) ==
    IF AboveThreshold(rate)
    THEN IF ~st.last_error_state
         THEN [st |-> [st EXCEPT !.last_alert_time = now,
                                 !.last_error_state = TRUE],
               alerts |-> <<send_slack_alert("ErrorRateElevated", now, post_ok)>>]
         ELSE [st |-> st, alerts |-> <<>>]
    ELSE IF ~AboveThreshold(rate) /\ st.last_error_state
    THEN IF CooldownElapsed(now, st.last_alert_time)
         THEN [st |-> [st EXCEPT !.last_alert_time = now,
                                 !.last_error_state = FALSE],
               alerts |-> <<send_slack_alert("ErrorRateRecovered", now, post_ok)>>]
         ELSE [st |-> st, alerts |-> <<>>]
    ELSE [st |-> st, alerts |-> <<>>]

\* variant: last_error_state follows the error rate, alert or no alert
CheckErrorRate_LatchOnCross(st, rate, now, post_ok) ==
    IF AboveThreshold(rate)
    THEN IF CooldownElapsed(now, st.last_alert_time) /\ ~st.last_error_state
         THEN [st |-> [st EXCEPT !.last_alert_time = now,
                                 !.last_error_state = TRUE],
               alerts |-> <<send_slack_alert("ErrorRateElevated", now, post_ok)>>]
         ELSE [st |-> [st EXCEPT !.last_error_state = TRUE], alerts |-> <<>>]
    ELSE IF ~AboveThreshold(rate) /\ st.last_error_state
    THEN IF CooldownElapsed(now, st.last_alert_time)
         THEN [st |-> [st EXCEPT !.last_alert_time = now,
                                 !.last_error_state = FALSE],
               alerts |-> <<send_slack_alert("ErrorRateRecovered", now, post_ok)>>]
         ELSE [st |-> [st EXCEPT !.last_error_state = FALSE], alerts |-> <<>>]
    ELSE [st |-> st, alerts |-> <<>>]

\* variant: the high-error-rate alert sent without looking at
\* last_error_state
CheckErrorRate_NoLatchTest(st, rate, now, post_ok) ==
    IF AboveThreshold(rate)
    THEN IF CooldownElapsed(now, st.last_alert_time)
         THEN [st |-> [st EXCEPT !.last_alert_time = now,
                                 !.last_error_state = TRUE],
               alerts |-> <<send_slack_alert("ErrorRateElevated", now, post_ok)>>]
         ELSE [st |-> st, alerts |-> <<>>]
    ELSE IF ~AboveThreshold(rate) /\ st.last_error_state
    THEN IF CooldownElapsed(now, st.last_alert_time)
         THEN [st |-> [st EXCEPT !.last_alert_time = now,
                                 !.last_error_state = FALSE],
               alerts |-> <<send_slack_alert("ErrorRateRecovered", now, post_ok)>>]
         ELSE [st |-> st, alerts |-> <<>>]
    ELSE [st |-> st, alerts |-> <<>>]

\* variant: the high-error-rate alert sent only when last_error_state is
\* already set
CheckErrorRate_LatchInverted(st, rate, now, post_ok) ==
    IF AboveThreshold(rate)
    THEN IF CooldownElapsed(now, st.last_alert_time) /\ st.last_error_state
         THEN [st |-> [st EXCEPT !.last_alert_time = now,
                                 !.last_error_state = TRUE],
               alerts |-> <<send_slack_alert("ErrorRateElevated", now, post_ok)>>]
         ELSE [st |-> st, alerts |-> <<>>]
    ELSE IF ~AboveThreshold(rate) /\ st.last_error_state
    THEN IF CooldownElapsed(now, st.last_alert_time)
         THEN [st |-> [st EXCEPT !.last_alert_time = now,
                                 !.last_error_state = FALSE],
               alerts |-> <<send_slack_alert("ErrorRateRecovered", now, post_ok)>>]
         ELSE [st |-> st, alerts |-> <<>>]
    ELSE [st |-> st, alerts |-> <<>>]

\* "Check for high error rate" / "Check for recovery from high error rate"
CheckErrorRate(st, rate, now, post_ok) ==
    IF AboveThreshold(rate)
    THEN IF CooldownElapsed(now, st.last_alert_time) /\ ~st.last_error_state
         THEN [st |-> [st EXCEPT !.last_alert_time = now,
                                 !.last_error_state = TRUE],
               alerts |-> <<send_slack_alert("ErrorRateElevated", now, post_ok)>>]
         ELSE [st |-> st, alerts |-> <<>>]
    ELSE IF ~AboveThreshold(rate) /\ st.last_error_state
    THEN IF CooldownElapsed(now, st.last_alert_time)
         THEN [st |-> [st EXCEPT !.last_alert_time = now,
                                 !.last_error_state = FALSE],
               alerts |-> <<send_slack_alert("ErrorRateRecovered", now, post_ok)>>]
         ELSE [st |-> st, alerts |-> <<>>]
    ELSE [st |-> st, alerts |-> <<>>]

\* ------------------------------------------------------------------------
\* One iteration of the loop on `line`.  now1 is the clock when the record
\* is parsed and the pool block reads time.time(), now2 the clock when the
\* error-rate block reads it (now1 <= now2: a Slack post is synchronous).
\* ------------------------------------------------------------------------
\* variant: a record with status 0 goes on to the window, pool and
\* error-rate blocks after its alert
LoopBody_NoSkip(st, line, now1, now2, post_ok) ==
    IF line = <<>> THEN [st |-> st, alerts |-> <<>>, appended |-> <<>>]
    ELSE
    LET st1 == [st EXCEPT !.total_logs_count = @ + 1]
        p == ParseFields(line)
    IN  IF ~p.ok THEN [st |-> st1, alerts |-> <<>>, appended |-> <<>>]
        ELSE
        LET m == CheckMissingFields(st1, p, now1, post_ok)
            u == CheckUnreachable(m.st, p, now1, post_ok)
            h == CheckHeaders(p, now1, post_ok)
            st2 == [m.st EXCEPT
                      !.status_window = deque_append(@, p.status)]
            rate == error_rate(st2.status_window)
            pc == CheckPoolChange(st2, p.pool, now1, post_ok)
            er == CheckErrorRate(pc.st, rate, now2, post_ok)
        IN  [st |-> er.st,
             alerts |-> m.alerts \o u \o h \o pc.alerts \o er.alerts,
             appended |-> <<p.status>>]

LoopBody(st, line, now1, now2, post_ok) ==
    IF line = <<>> THEN [st |-> st, alerts |-> <<>>, appended |-> <<>>]
    ELSE
    LET st1 == [st EXCEPT !.total_logs_count = @ + 1]
        p == ParseFields(line)
    IN  IF ~p.ok THEN [st |-> st1, alerts |-> <<>>, appended |-> <<>>]
        ELSE
        LET m == CheckMissingFields(st1, p, now1, post_ok)
        IN  IF p.status = 0
            THEN [st |-> m.st,
                  alerts |-> m.alerts \o CheckUnreachable(m.st, p, now1, post_ok),
                  appended |-> <<>>]
            ELSE
            LET h == CheckHeaders(p, now1, post_ok)
                st2 == [m.st EXCEPT
                          !.status_window = deque_append(@, p.status)]
                rate == error_rate(st2.status_window)
                pc == CheckPoolChange(st2, p.pool, now1, post_ok)
                er == CheckErrorRate(pc.st, rate, now2, post_ok)
            IN  [st |-> er.st,
                 alerts |-> m.alerts \o h \o pc.alerts \o er.alerts,
                 appended |-> <<p.status>>]

\* ------------------------------------------------------------------------
\* State
\* ------------------------------------------------------------------------
VARIABLES
    status_window,         \* deque(maxlen=WINDOW_SIZE) of status codes
    total_logs_count,
    missing_fields_count,
    last_pool,
    last_error_state,      \* FALSE = Normal, TRUE = Elevated
    last_alert_time,
    clock,                 \* time.time()
    alerts,                \* the alerts sent by the latest iteration, in order
    pushed,                \* history: every status appended to the window
    log                    \* history: [kind, at] of every cooldown-governed
                           \* alert sent so far

vars == <<status_window, total_logs_count, missing_fields_count, last_pool,
          last_error_state, last_alert_time, clock, alerts, pushed, log>>

State ==
    [status_window |-> status_window,
     total_logs_count |-> total_logs_count,
     missing_fields_count |-> missing_fields_count,
     last_pool |-> last_pool,
     last_error_state |-> last_error_state,
     last_alert_time |-> last_alert_time]

PoolKinds == {"Failover", "Recovery", "PoolSwitch"}
ErrorRateKinds == {"ErrorRateElevated", "ErrorRateRecovered"}
CooldownKinds == PoolKinds \cup ErrorRateKinds

\* the alerts of `as` whose kind is in `kinds`, in order
RECURSIVE OfKinds(_, _)
OfKinds(as, kinds) ==
    IF as = <<>> THEN <<>>
    ELSE (IF Head(as).kind \in kinds THEN <<Head(as)>> ELSE <<>>)
         \o OfKinds(Tail(as), kinds)

LogEntries(as) ==
    LET c == OfKinds(as, CooldownKinds)
    IN  [i \in 1..Len(c) |-> [kind |-> c[i].kind, at |-> c[i].at]]

Init ==
    /\ status_window = <<>>
    /\ total_logs_count = 0
    /\ missing_fields_count = 0
    /\ last_pool = ACTIVE_POOL
    /\ last_error_state = FALSE
    /\ last_alert_time = 0
    /\ clock = StartTime
    /\ alerts = <<>>
    /\ pushed = <<>>
    /\ log = <<>>

\* the loop reads `line` and runs its body; delay seconds pass between the
\* two clock reads
ProcessLineBy(line, delay, post_ok, horizon) ==
    /\ clock + delay <= horizon
    /\ LET r == LoopBody(State, line, clock, clock + delay, post_ok)
       IN  /\ status_window' = r.st.status_window
           /\ total_logs_count' = r.st.total_logs_count
           /\ missing_fields_count' = r.st.missing_fields_count
           /\ last_pool' = r.st.last_pool
           /\ last_error_state' = r.st.last_error_state
           /\ last_alert_time' = r.st.last_alert_time
           /\ alerts' = r.alerts
           /\ pushed' = pushed \o r.appended
           /\ log' = log \o LogEntries(r.alerts)
    /\ clock' = clock + delay

ProcessLine(line, delay, post_ok) == ProcessLineBy(line, delay, post_ok, MaxTime)

\* time passes while the loop waits for the next line
TickBy(horizon) ==
    /\ clock < horizon
    /\ clock' = clock + 1
    /\ UNCHANGED <<status_window, total_logs_count, missing_fields_count,
                   last_pool, last_error_state, last_alert_time, alerts,
                   pushed, log>>

Tick == TickBy(MaxTime)

\* ------------------------------------------------------------------------
\* Inputs under Spec
\* ------------------------------------------------------------------------
PoolNames == {"blue", "green", "red", "-"}
S200 == <<"2", "0", "0">>
S503 == <<"5", "0", "3">>
S000 == <<"0", "0", "0">>
SHops == <<"5", "0", "3", ",", "2", "0", "0">>    \* two hops: "503,200"
SBad == <<"a", "b", "c">>
SDash == <<"-">>                                  \* nginx writes "-" for no upstream

OptPool == {<<>>} \cup {<<PoolTok(n)>> : n \in PoolNames}

Lines ==
    {<<>>}
    \cup {<<OtherTok>> \o a \o <<StatusTok(cs), RequestTok>> :
             a \in OptPool, cs \in {S200, S503}}
    \cup {<<OtherTok>> \o a \o b \o <<RequestTok>> :
             a \in {<<>>, <<PoolTok("green")>>},
             b \in {<<>>, <<StatusTok(S000)>>, <<StatusTok(SBad)>>}}
    \cup {<<OtherTok, PoolTok("green"), StatusTok(S503)>>,
          <<OtherTok, PoolTok("blue"), StatusTok(SHops), RequestTok>>,
          <<OtherTok, PoolTok("blue"), StatusTok(SDash), RequestTok>>,
          <<StatusTok(S503), PoolTok("green"), StatusTok(SBad)>>,
          <<StatusTok(S503), StatusTok(S200), RequestTok, PoolTok("green")>>}

Next ==
    \/ \E line \in Lines, delay \in 0..MaxDelay, post_ok \in BOOLEAN :
          /\ line # <<>> => total_logs_count < MaxTotal
          /\ ProcessLine(line, delay, post_ok)
    \/ Tick

Spec == Init /\ [][Next]_vars

\* ------------------------------------------------------------------------
\* SpecDQ: long runs for the field-completeness counters.  The clock stands
\* still, so the cooldown started by the first pool alert never ends.
\* ------------------------------------------------------------------------
LinesDQ ==
    {<<OtherTok, PoolTok("blue"), StatusTok(S200), RequestTok>>,
     <<OtherTok, PoolTok("blue"), StatusTok(S200)>>,
     <<OtherTok, PoolTok("green"), StatusTok(S200)>>}

NextDQ ==
    \E line \in LinesDQ, post_ok \in BOOLEAN :
        /\ total_logs_count < MaxTotalDQ
        /\ ProcessLine(line, 0, post_ok)

SpecDQ == Init /\ [][NextDQ]_vars

\* ------------------------------------------------------------------------
\* SpecWindow: pushes of status codes around the 5xx boundaries.
\* ------------------------------------------------------------------------
StatusTextsW ==
    {S200, S503, <<"4", "9", "9">>, <<"5", "0", "0">>, <<"5", "9", "9">>,
     <<"6", "0", "0">>}

LinesW ==
    {<<OtherTok, PoolTok("blue"), StatusTok(cs), RequestTok>> : cs \in StatusTextsW}

NextW ==
    \E line \in LinesW :
        /\ total_logs_count < MaxPushes
        /\ ProcessLine(line, 0, TRUE)

SpecWindow == Init /\ [][NextW]_vars

\* ------------------------------------------------------------------------
\* SpecErr: complete records with status 200 or 503 from either pool, over
\* a clock long enough for three cooldowns.
\* ------------------------------------------------------------------------
LinesErr ==
    {<<OtherTok, PoolTok(n), StatusTok(cs), RequestTok>> :
        n \in {"blue", "green"}, cs \in {S200, S503}}

NextErr ==
    \/ \E line \in LinesErr :
          /\ total_logs_count < MaxTotalErr
          /\ ProcessLineBy(line, 0, TRUE, MaxTimeErr)
    \/ TickBy(MaxTimeErr)

SpecErr == Init /\ [][NextErr]_vars

\* ------------------------------------------------------------------------
\* SpecLive: the loop running for ever.  The code reads the clock and
\* last_alert_time only in `now - last_alert_time > ALERT_COOLDOWN_SEC`, so
\* the state keeps the two relative to a time origin that moves with the
\* clock: clock stays at StartTime, a second passing lowers last_alert_time
\* by one, and last_alert_time stops at 0, where the cooldown has elapsed.
\* total_logs_count is kept modulo TotalCycle: the code reads it only inside
\* `if missing:`, and no record of LinesLive lacks a field.  The histories
\* pushed and log are not recorded.
\* ------------------------------------------------------------------------

LinesLive ==
    {<<OtherTok, PoolTok(n), StatusTok(cs), RequestTok>> :
        n \in {"blue", "green"}, cs \in {S200, S503}}

ProcessLineLive(line, delay) ==
    /\ LET r == LoopBody(State, line, clock, clock + delay, TRUE)
           t == r.st.last_alert_time - delay
       IN  /\ status_window' = r.st.status_window
           /\ total_logs_count' = r.st.total_logs_count % TotalCycle
           /\ missing_fields_count' = r.st.missing_fields_count
           /\ last_pool' = r.st.last_pool
           /\ last_error_state' = r.st.last_error_state
           /\ last_alert_time' = (IF t < 0 THEN 0 ELSE t)
           /\ alerts' = r.alerts
    /\ UNCHANGED <<clock, pushed, log>>

TickLive ==
    /\ last_alert_time > 0
    /\ last_alert_time' = last_alert_time - 1
    /\ UNCHANGED <<status_window, total_logs_count, missing_fields_count,
                   last_pool, last_error_state, clock, alerts, pushed, log>>

ReadLive == \E line \in LinesLive, delay \in 0..MaxDelay : ProcessLineLive(line, delay)

NextLive == ReadLive \/ TickLive

\* a step of ReadLive, told by the counter that it alone advances
LineRead == total_logs_count' = (total_logs_count + 1) % TotalCycle

\* records keep arriving and are read; time keeps passing
SpecLive ==
    /\ Init /\ [][NextLive]_vars
    /\ WF_total_logs_count(LineRead)
    /\ WF_last_alert_time(TickLive)

\* ------------------------------------------------------------------------
\* What one iteration on `line` would do in the current state
\* ------------------------------------------------------------------------
Out(line, delay, post_ok) == LoopBody(State, line, clock, clock + delay, post_ok)

Delays == 0..MaxDelay

Cooled(as) == OfKinds(as, CooldownKinds)

\* the record of `line` reaches the window and the alert state machine
Pushed(line) ==
    line # <<>> /\ ParseFields(line).ok /\ ParseFields(line).status # 0

\* ------------------------------------------------------------------------
\* C1  Shared cooldown.  last_alert_time is the time of the latest
\* cooldown-governed alert (0 before the first); every such alert is sent
\* more than ALERT_COOLDOWN_SEC after the one before it, whatever the two
\* kinds are.  One record sends at most one of them, except that a pool
\* alert and an error-rate alert are both sent when more than
\* ALERT_COOLDOWN_SEC pass between the two clock reads of the iteration.
\* ------------------------------------------------------------------------
C1_Spacing ==
    /\ last_alert_time = (IF log = <<>> THEN 0 ELSE log[Len(log)].at)
    /\ \A i \in 1..Len(log) :
          log[i].at - (IF i = 1 THEN 0 ELSE log[i - 1].at) > ALERT_COOLDOWN_SEC
    /\ \A i \in 1..(Len(log) - 1) :
          log[i + 1].at - log[i].at >= ALERT_COOLDOWN_SEC

C1_SharedCooldown ==
    /\ C1_Spacing
    /\ LET c == Cooled(alerts)
       IN  /\ Len(c) <= 2
           /\ Len(c) = 2 =>
                 /\ c[1].kind \in PoolKinds
                 /\ c[2].kind \in ErrorRateKinds
                 /\ c[2].at - c[1].at > ALERT_COOLDOWN_SEC

\* C1 as stated: at most one cooldown-governed alert per record
C1_AtMostOnePerRecord ==
    /\ C1_Spacing
    /\ Len(Cooled(alerts)) <= 1

\* two alerts of different kinds have been sent by two different records
C1_Witness ==
    /\ Len(log) >= 2
    /\ log[1].kind \in PoolKinds
    /\ log[2].kind \in ErrorRateKinds
    /\ Len(Cooled(alerts)) = 1

\* ------------------------------------------------------------------------
\* C2  Parse failure changes nothing: an iteration on a line whose
\* upstream_status value is not a number leaves the window, both counters,
\* last_pool, last_error_state and last_alert_time as they were and sends
\* no alert.
\* ------------------------------------------------------------------------
C2_ParseFailureChangesNothing ==
    [][\A line \in Lines :
          (line # <<>> /\ ~ParseFields(line).ok /\ ProcessLine(line, 0, TRUE))
          => /\ UNCHANGED <<status_window, total_logs_count,
                            missing_fields_count, last_pool,
                            last_error_state, last_alert_time>>
             /\ alerts' = <<>>]_vars

\* ------------------------------------------------------------------------
\* C3  UnreachableEndpoint bypasses the cooldown: in every reachable state
\* (with the cooldown elapsed or not) an iteration on a line that parses
\* to status 0, with or without an upstream_status token, sends exactly
\* one UnreachableEndpoint alert.
\* ------------------------------------------------------------------------
C3_UnreachableEveryRecord ==
    \A line \in Lines, delay \in Delays :
        (line # <<>> /\ ParseFields(line).ok /\ ParseFields(line).status = 0)
        => Len(OfKinds(Out(line, delay, TRUE).alerts, {"UnreachableEndpoint"})) = 1

\* an UnreachableEndpoint alert was sent while the cooldown of an earlier
\* alert was running
C3_Witness ==
    /\ log # <<>>
    /\ \E i \in 1..Len(alerts) :
          /\ alerts[i].kind = "UnreachableEndpoint"
          /\ ~(alerts[i].at - last_alert_time > ALERT_COOLDOWN_SEC)

\* ------------------------------------------------------------------------
\* C4  Pool change classification: a record that reaches the pool block
\* (parsed, status # 0) with a pool other than "unknown", "-" and last_pool,
\* read when the cooldown has elapsed, sends exactly one pool alert:
\* Failover when last_pool is the active pool and the new pool is not,
\* Recovery when last_pool is not the active pool and the new pool is,
\* PoolSwitch otherwise.
\* ------------------------------------------------------------------------
C4_PoolChangeKind ==
    \A line \in Lines, delay \in Delays :
        LET p == ParseFields(line)
            sent == OfKinds(Out(line, delay, TRUE).alerts, PoolKinds)
        IN  (/\ Pushed(line)
             /\ p.pool \notin {"unknown", "-"}
             /\ p.pool # last_pool
             /\ clock - last_alert_time > ALERT_COOLDOWN_SEC)
            => /\ Len(sent) = 1
               /\ (last_pool = ACTIVE_POOL /\ p.pool # ACTIVE_POOL)
                     => sent[1].kind = "Failover"
               /\ (last_pool # ACTIVE_POOL /\ p.pool = ACTIVE_POOL)
                     => sent[1].kind = "Recovery"
               /\ (last_pool # ACTIVE_POOL /\ p.pool # ACTIVE_POOL)
                     => sent[1].kind = "PoolSwitch"

\* blue -> green sent one Failover, a later green -> blue one Recovery
C4_Witness ==
    /\ Len(log) = 2
    /\ log[1].kind = "Failover"
    /\ log[2].kind = "Recovery"
    /\ Len(OfKinds(alerts, PoolKinds)) = 1
    /\ last_pool = ACTIVE_POOL

\* ------------------------------------------------------------------------
\* C5  ErrorRateElevated de-duplication.  A record sends ErrorRateElevated,
\* once, exactly when its error rate is above the threshold,
\* last_error_state is Normal and the cooldown has elapsed at the
\* error-rate check, measured from the latest cooldown-governed alert, a
\* pool alert of the same record included; and two ErrorRateElevated
\* alerts are never sent within one cooldown window.
\* ------------------------------------------------------------------------
ErrorsIn(w) == Cardinality({i \in 1..Len(w) : 500 <= w[i] /\ w[i] < 600})

C5_ElevatedWhen(line, delay, r, atCheck) ==
    LET w == r.st.status_window
        poolSent == OfKinds(r.alerts, PoolKinds) # <<>>
        since == IF atCheck /\ poolSent THEN clock ELSE last_alert_time
        now == IF atCheck THEN clock + delay ELSE clock
    IN  /\ Pushed(line)
        /\ ErrorsIn(w) * 100 > ERROR_RATE_THRESHOLD * Len(w)
        /\ ~last_error_state
        /\ now - since > ALERT_COOLDOWN_SEC

C5_NoRepeatInWindow ==
    \A i, j \in 1..Len(log) :
        (i < j /\ log[i].kind = "ErrorRateElevated"
               /\ log[j].kind = "ErrorRateElevated")
        => log[j].at - log[i].at > ALERT_COOLDOWN_SEC

C5_ElevatedOnce ==
    /\ C5_NoRepeatInWindow
    /\ \A line \in Lines, delay \in Delays :
          LET r == Out(line, delay, TRUE)
          IN  Len(OfKinds(r.alerts, {"ErrorRateElevated"}))
                 = (IF C5_ElevatedWhen(line, delay, r, TRUE) THEN 1 ELSE 0)

\* C5 as stated: the cooldown taken as elapsed when the first record arrives
C5_ElevatedAtFirstRecord ==
    [][\A line \in Lines, delay \in Delays :
          (/\ C5_ElevatedWhen(line, delay, Out(line, delay, TRUE), FALSE)
           /\ ProcessLine(line, delay, TRUE))
          => Len(OfKinds(alerts', {"ErrorRateElevated"})) = 1]_vars

\* after an ErrorRateElevated alert a second record with the error rate
\* above the threshold arrived within the cooldown and sent nothing
C5_Witness ==
    /\ log # <<>>
    /\ log[Len(log)].kind = "ErrorRateElevated"
    /\ Len(pushed) >= 2
    /\ ErrorsIn(status_window) * 100 > ERROR_RATE_THRESHOLD * Len(status_window)
    /\ total_logs_count >= 2
    /\ alerts = <<>>
    /\ ~(clock - last_alert_time > ALERT_COOLDOWN_SEC)

\* ------------------------------------------------------------------------
\* C6  DataQuality throttling (SpecDQ): an iteration sends at most one
\* DataQuality alert and only when total_logs_count is a multiple of 50;
\* none is sent before record 50, and when all of the first 50 records
\* miss a field exactly one is sent at record 50.  The alert is decided
\* without the cooldown and, alone, leaves last_alert_time as it was.
\* ------------------------------------------------------------------------
C6_DataQualityThrottle ==
    /\ LET dq == OfKinds(alerts, {"DataQuality"})
       IN  /\ Len(dq) <= 1
           /\ dq # <<>> => total_logs_count % 50 = 0
           /\ total_logs_count < 50 => dq = <<>>
           /\ (total_logs_count = 50 /\ missing_fields_count = 50) => Len(dq) = 1
    /\ \A line \in LinesDQ :
          LET r == Out(line, 0, TRUE)
          IN  (OfKinds(r.alerts, {"DataQuality"}) # <<>> /\ Cooled(r.alerts) = <<>>)
              => r.st.last_alert_time = last_alert_time

\* record 50 of fifty records that all miss a field sent the alert while
\* the cooldown of a pool alert was running
C6_Witness ==
    /\ total_logs_count = 50
    /\ missing_fields_count = 50
    /\ OfKinds(alerts, {"DataQuality"}) # <<>>
    /\ log # <<>>
    /\ ~(clock - last_alert_time > ALERT_COOLDOWN_SEC)

\* ------------------------------------------------------------------------
\* C7  Rolling window bound and FIFO order (SpecWindow): the window never
\* holds more than WINDOW_SIZE entries and is exactly the latest
\* min(n, WINDOW_SIZE) of the n statuses pushed so far, in arrival order.
\* ------------------------------------------------------------------------
C7_WindowFIFO ==
    LET n == Len(pushed)
        k == IF n < WINDOW_SIZE THEN n ELSE WINDOW_SIZE
    IN  /\ Len(status_window) <= WINDOW_SIZE
        /\ status_window = SubSeq(pushed, n - k + 1, n)

\* two entries have been evicted, and the window differs from the first
\* WINDOW_SIZE pushes
C7_Witness ==
    /\ Len(pushed) = WINDOW_SIZE + 2
    /\ Len(status_window) = WINDOW_SIZE
    /\ status_window # SubSeq(pushed, 1, WINDOW_SIZE)
    /\ pushed[1] # pushed[WINDOW_SIZE + 1]

C9_DeliveryFailureSwallowed ==
    \A line \in Lines, delay \in Delays :
        LET ok == Out(line, delay, TRUE)
            ko == Out(line, delay, FALSE)
            c == Cooled(ko.alerts)
        IN  /\ ko.st = ok.st
            /\ ko.appended = ok.appended
            /\ Len(ko.alerts) = Len(ok.alerts)
            /\ \A i \in 1..Len(ko.alerts) :
                  /\ ko.alerts[i].kind = ok.alerts[i].kind
                  /\ ko.alerts[i].at = ok.alerts[i].at
                  /\ ~ko.alerts[i].delivered
                  /\ ok.alerts[i].delivered
            /\ c # <<>> =>
                  /\ ko.st.last_alert_time = c[Len(c)].at
                  /\ c[Len(c)].at \in {clock, clock + delay}

\* the post of a cooldown-governed alert failed and last_alert_time is the
\* time of that alert
C9_Witness ==
    \E i \in 1..Len(alerts) :
        /\ alerts[i].kind \in CooldownKinds
        /\ ~alerts[i].delivered
        /\ last_alert_time = alerts[i].at
        /\ last_alert_time = clock

\* ------------------------------------------------------------------------
\* C10  last_pool follows the stream: a record that reaches the pool block
\* with a pool other than "unknown" and "-" leaves last_pool equal to its
\* pool, alert or no alert; a record whose pool is "unknown" or "-" leaves
\* last_pool as it was; a pool alert is sent only by a record whose pool
\* differs from last_pool, so a change seen during the cooldown is not
\* alerted later.
\* ------------------------------------------------------------------------
C10_LastPoolFollows ==
    \A line \in Lines, delay \in Delays :
        LET p == ParseFields(line)
            r == Out(line, delay, TRUE)
        IN  /\ (Pushed(line) /\ p.pool \notin {"unknown", "-"})
                  => r.st.last_pool = p.pool
            /\ (line # <<>> /\ p.ok /\ p.pool \in {"unknown", "-"})
                  => r.st.last_pool = last_pool
            /\ OfKinds(r.alerts, PoolKinds) # <<>>
                  => (Pushed(line) /\ p.pool # last_pool)

\* the pool went to green (Failover sent) and came back to blue within the
\* cooldown: no alert for the way back, and last_pool is blue again
C10_Witness ==
    /\ Len(log) = 1
    /\ log[1].kind = "Failover"
    /\ last_pool = ACTIVE_POOL
    /\ alerts = <<>>
    /\ status_window # <<>>
    /\ Len(pushed) >= 2
    /\ ~(clock - last_alert_time > ALERT_COOLDOWN_SEC)

\* ------------------------------------------------------------------------
\* C11  last_error_state changes only together with an error-rate alert: a
\* record turns it to Elevated exactly when it sends ErrorRateElevated and
\* to Normal exactly when it sends ErrorRateRecovered.  A record at which
\* the rate is on the other side of the threshold while the cooldown has
\* not elapsed at the error-rate check leaves last_error_state as it was,
\* so the alert is still due at a later record.
\* ------------------------------------------------------------------------
C11_LatchWithAlert ==
    \A line \in Lines, delay \in Delays :
        LET r == Out(line, delay, TRUE)
            w == r.st.status_window
            up == OfKinds(r.alerts, {"ErrorRateElevated"}) # <<>>
            down == OfKinds(r.alerts, {"ErrorRateRecovered"}) # <<>>
            since == IF OfKinds(r.alerts, PoolKinds) # <<>>
                     THEN clock ELSE last_alert_time
            inCooldown == (clock + delay) - since <= ALERT_COOLDOWN_SEC
            above == ErrorsIn(w) * 100 > ERROR_RATE_THRESHOLD * Len(w)
        IN  /\ up <=> (~last_error_state /\ r.st.last_error_state)
            /\ down <=> (last_error_state /\ ~r.st.last_error_state)
            /\ ~(up /\ down)
            /\ (Pushed(line) /\ inCooldown)
                  => /\ r.st.last_error_state = last_error_state
                     /\ ~up /\ ~down
            /\ (Pushed(line) /\ ~inCooldown /\ above /\ ~last_error_state) => up
            /\ (Pushed(line) /\ ~inCooldown /\ ~above /\ last_error_state) => down

\* the first record crossed the threshold while its own Failover alert had
\* restarted the cooldown: last_error_state stayed Normal, and the second
\* record, after the cooldown, sent ErrorRateElevated
C11_Witness ==
    /\ Len(pushed) = 2
    /\ 500 <= pushed[1] /\ pushed[1] < 600
    /\ Len(log) = 2
    /\ log[1].kind = "Failover"
    /\ log[2].kind = "ErrorRateElevated"
    /\ log[2].at - log[1].at > ALERT_COOLDOWN_SEC
    /\ Len(alerts) = 1
    /\ alerts[1].kind = "ErrorRateElevated"
    /\ last_error_state

\* ------------------------------------------------------------------------
\* C12  A record with status 0 stops after its UnreachableEndpoint alert:
\* it leaves the window, last_pool, last_error_state and last_alert_time
\* as they were and sends no pool or error-rate alert, whatever its pool;
\* the window never holds a 0.
\* ------------------------------------------------------------------------
C12_StatusZeroStops ==
    /\ \A i \in 1..Len(status_window) : status_window[i] # 0
    /\ \A i \in 1..Len(pushed) : pushed[i] # 0
    /\ \A line \in Lines, delay \in Delays :
          LET p == ParseFields(line)
          IN  (line # <<>> /\ p.ok /\ p.status = 0) =>
                 LET r == Out(line, delay, TRUE)
                 IN  /\ r.st.status_window = status_window
                     /\ r.st.last_pool = last_pool
                     /\ r.st.last_error_state = last_error_state
                     /\ r.st.last_alert_time = last_alert_time
                     /\ r.appended = <<>>
                     /\ Cooled(r.alerts) = <<>>
                     /\ OfKinds(r.alerts, {"UnreachableEndpoint"}) # <<>>

\* the first record was complete (pool, upstream_status and request all
\* present) and had status 0; the only such line of Lines carries pool
\* green.  It sent UnreachableEndpoint alone: the window is still empty,
\* last_pool is still ACTIVE_POOL and no pool alert was sent although the
\* cooldown had elapsed
C12_Witness ==
    /\ total_logs_count = 1
    /\ missing_fields_count = 0
    /\ Len(alerts) = 1
    /\ alerts[1].kind = "UnreachableEndpoint"
    /\ status_window = <<>>
    /\ pushed = <<>>
    /\ last_pool = ACTIVE_POOL
    /\ ~last_error_state
    /\ last_alert_time = 0
    /\ clock - last_alert_time > ALERT_COOLDOWN_SEC
    /\ log = <<>>

\* ------------------------------------------------------------------------
\* C13  last_alert_time is written only by the cooldown-governed alerts: a
\* record changes it exactly when it sends a Failover, Recovery,
\* PoolSwitch, ErrorRateElevated or ErrorRateRecovered alert, and then it
\* is the time read for the last of them; a record that sends only
\* UnreachableEndpoint, HeaderAnomaly or DataQuality alerts leaves it as it
\* was.  It never decreases and never passes the clock.
\* ------------------------------------------------------------------------
C13_StampOnlyByCooled ==
    /\ last_alert_time <= clock
    /\ last_alert_time = (IF log = <<>> THEN 0 ELSE log[Len(log)].at)
    /\ \A line \in Lines, delay \in Delays :
          LET r == Out(line, delay, TRUE)
              c == Cooled(r.alerts)
          IN  /\ (r.st.last_alert_time # last_alert_time) <=> (c # <<>>)
              /\ c # <<>> =>
                    /\ r.st.last_alert_time = c[Len(c)].at
                    /\ c[Len(c)].at \in {clock, clock + delay}
              /\ r.st.last_alert_time >= last_alert_time

\* a record sent UnreachableEndpoint after the cooldown of an earlier
\* alert had elapsed: last_alert_time is still the time of that earlier
\* alert, so the next cooldown-governed alert is not delayed
C13_Witness ==
    /\ log # <<>>
    /\ Len(alerts) = 1
    /\ alerts[1].kind = "UnreachableEndpoint"
    /\ alerts[1].at - last_alert_time > ALERT_COOLDOWN_SEC
    /\ last_alert_time = log[Len(log)].at
    /\ last_alert_time > 0

\* ------------------------------------------------------------------------
\* C14  DataQuality emission rule (SpecDQ): a parsed record sends a
\* DataQuality alert exactly when the record itself lacks a required
\* field and, with both counters updated for it,
\* (missing_fields_count / total_logs_count) * 3 >= 1 and
\* total_logs_count % 50 = 0.
\* ------------------------------------------------------------------------
C14_DataQualityRule ==
    \A line \in LinesDQ :
        LET p == ParseFields(line)
            r == Out(line, 0, TRUE)
            lacks == \E f \in {"pool", "upstream_status", "request"} :
                         f \notin p.found_fields
            m == r.st.missing_fields_count
            t == r.st.total_logs_count
        IN  (OfKinds(r.alerts, {"DataQuality"}) # <<>>)
               <=> (lacks /\ m * 3 >= t /\ t % 50 = 0)

\* C14 as stated: the alert decided by the ratio and the multiple of 50
\* alone, whether or not the record lacks a field
C14_DataQualityAnyRecord ==
    [][(OfKinds(alerts', {"DataQuality"}) # <<>>)
          <=> (/\ missing_fields_count' * 3 >= total_logs_count'
               /\ total_logs_count' % 50 = 0)]_vars

\* record 100 lacked a field and sent DataQuality with 34 of the 100
\* records incomplete: 66 complete records were counted in the ratio
C14_Witness ==
    /\ total_logs_count = 100
    /\ missing_fields_count = 34
    /\ Len(alerts) = 1
    /\ alerts[1].kind = "DataQuality"

\* ------------------------------------------------------------------------
\* C15  Completeness counters: no iteration lowers total_logs_count or
\* missing_fields_count; a parsed record raises total_logs_count by
\* exactly 1 and missing_fields_count by exactly 1 if it lacks one of
\* pool, upstream_status, request and by 0 otherwise;
\* 0 <= missing_fields_count <= total_logs_count in every state.
\* ------------------------------------------------------------------------
C15_Counters ==
    /\ 0 <= missing_fields_count
    /\ missing_fields_count <= total_logs_count
    /\ \A line \in Lines :
          LET p == ParseFields(line)
              r == Out(line, 0, TRUE)
              lacks == \E f \in {"pool", "upstream_status", "request"} :
                           f \notin p.found_fields
          IN  /\ r.st.total_logs_count >= total_logs_count
              /\ r.st.missing_fields_count >= missing_fields_count
              /\ (line # <<>> /\ p.ok) =>
                    /\ r.st.total_logs_count = total_logs_count + 1
                    /\ r.st.missing_fields_count
                          = missing_fields_count + (IF lacks THEN 1 ELSE 0)

\* two records were parsed and pushed; one of them lacked a field
C15_Witness ==
    /\ Len(pushed) = 2
    /\ total_logs_count = 2
    /\ missing_fields_count = 1

\* ------------------------------------------------------------------------
\* C16  The incremental error counter of the design notes (not in the
\* source): the counter goes up when the pushed status is in [500,600)
\* and down when the status evicted by that push is in [500,600).  After
\* every push it equals the number found by the scan of the window, for
\* every sequence of pushes and every capacity from 1 to MaxCapacity.
\* ------------------------------------------------------------------------
IsServerError(s) == 500 <= s /\ s < 600

\* one push on the pair [w, count]
PushCounted(c, s, maxlen) ==
    LET evicted == IF Len(c.w) = maxlen THEN <<Head(c.w)>> ELSE <<>>
        up == IF IsServerError(s) THEN 1 ELSE 0
        down == IF evicted # <<>> /\ IsServerError(evicted[1]) THEN 1 ELSE 0
    IN  [w |-> append_maxlen(c.w, s, maxlen), count |-> c.count + up - down]

RECURSIVE PushAllCounted(_, _, _)
PushAllCounted(c, ss, maxlen) ==
    IF ss = <<>> THEN c
    ELSE PushAllCounted(PushCounted(c, Head(ss), maxlen), Tail(ss), maxlen)

CountedFrom(ss, maxlen) ==
    PushAllCounted([w |-> <<>>, count |-> 0], ss, maxlen)

\* `pushed` runs over every sequence of pushes, prefixes included
C16_IncrementalAgrees ==
    \A maxlen \in 1..MaxCapacity :
        LET c == CountedFrom(pushed, maxlen)
        IN  /\ c.count = errors(c.w)
            /\ Len(c.w) <= maxlen
            /\ maxlen = WINDOW_SIZE => c.w = status_window

\* a server error was evicted from the full window and the counter went
\* down: five pushes, the first a 503, leave no error in a window of 3
C16_Witness ==
    /\ Len(pushed) = 5
    /\ pushed[1] = 503
    /\ errors(status_window) = 0
    /\ CountedFrom(pushed, WINDOW_SIZE).count = 0
    /\ CountedFrom(SubSeq(pushed, 1, 3), WINDOW_SIZE).count = 1
    /\ CountedFrom(pushed, 1).count = 0

\* ------------------------------------------------------------------------
\* C17  A status other than 0 implies that upstream_status was recorded as
\* found: for every parsed record, status # 0 only if "upstream_status" is
\* in found_fields.  So the HeaderAnomaly condition (500 <= status < 600
\* with upstream_status absent) is false for every record and no
\* HeaderAnomaly alert is ever sent.
\* ------------------------------------------------------------------------
C17_NoHeaderAnomaly ==
    /\ \A i \in 1..Len(alerts) : alerts[i].kind # "HeaderAnomaly"
    /\ \A line \in Lines :
          LET p == ParseFields(line)
          IN  (line # <<>> /\ p.ok) =>
                 /\ p.status # 0 => "upstream_status" \in p.found_fields
                 /\ ~(/\ 500 <= p.status /\ p.status < 600
                      /\ "upstream_status" \notin p.found_fields)
                 /\ \A post_ok \in BOOLEAN :
                       LET as == Out(line, 0, post_ok).alerts
                       IN  \A i \in 1..Len(as) : as[i].kind # "HeaderAnomaly"

\* the first record had status 503 and lacked a required field: it was
\* pushed and sent alerts, none of them HeaderAnomaly
C17_Witness ==
    /\ pushed = <<503>>
    /\ total_logs_count = 1
    /\ missing_fields_count = 1
    /\ alerts # <<>>
    /\ \A i \in 1..Len(alerts) : alerts[i].kind # "HeaderAnomaly"

\* ------------------------------------------------------------------------
\* C18  Error-rate alerts alternate (SpecErr): in the sequence of
\* error-rate alerts sent so far the first is ErrorRateElevated and the
\* two kinds alternate after it; last_error_state is Elevated exactly when
\* the latest error-rate alert was ErrorRateElevated.
\* ------------------------------------------------------------------------
C18_Alternate ==
    LET er == OfKinds(log, ErrorRateKinds)
    IN  /\ \A i \in 1..Len(er) :
              er[i].kind = (IF i % 2 = 1 THEN "ErrorRateElevated"
                            ELSE "ErrorRateRecovered")
        /\ last_error_state
              <=> (er # <<>> /\ er[Len(er)].kind = "ErrorRateElevated")

\* ErrorRateElevated, ErrorRateRecovered and ErrorRateElevated again
C18_Witness ==
    /\ Len(OfKinds(log, ErrorRateKinds)) = 3
    /\ last_error_state
    /\ Len(alerts) = 1
    /\ alerts[1].kind = "ErrorRateElevated"

\* ------------------------------------------------------------------------
\* C19  A persistent elevated error rate is eventually alerted (SpecLive,
\* records keep being read and time keeps passing): from
\* some record on, if every record sees an error rate above the threshold
\* and last_pool no longer changes, ErrorRateElevated is sent unless
\* last_error_state is Elevated already, and last_error_state is Elevated
\* from then on.
\* ------------------------------------------------------------------------
RateAbove == AboveThreshold(error_rate(status_window))

\* last_error_state turns Elevated only by sending ErrorRateElevated (C11)
C19_ElevatedWhenPoolSettles ==
    /\ <>[](RateAbove /\ last_pool = "blue") => <>[]last_error_state
    /\ <>[](RateAbove /\ last_pool = "green") => <>[]last_error_state

\* C19 as stated: whatever pools the records carry
C19_ElevatedWhateverPools == <>[]RateAbove => <>[]last_error_state

\* the pool went to green on a record whose Failover alert restarted the
\* cooldown; a later green record with the window full of server errors
\* sent ErrorRateElevated
C19_Witness ==
    /\ last_pool = "green"
    /\ Len(alerts) = 1
    /\ alerts[1].kind = "ErrorRateElevated"
    /\ status_window = <<503, 503, 503>>
    /\ last_error_state
    /\ pushed = <<>>

====
